---- MODULE Spec2Model ----
(***************************************************************************)
(* Model of slstatus' components/netspeeds.c: the netspeed_rx/netspeed_tx  *)
(* rate samplers of the Linux build (sysfs read) and of the BSD build      *)
(* (getifaddrs traversal), and the netspeed_*_auto wrappers.               *)
(*                                                                         *)
(* uintmax_t values are kept at their width of 64 bits: a value is a       *)
(* little-endian sequence of four 16-bit limbs, and every operation on it  *)
(* wraps modulo 2^64 as the C expression does.                             *)
(***************************************************************************)
EXTENDS Integers, Sequences, FiniteSets

(***************************************************************************)
(* uintmax_t arithmetic                                                    *)
(***************************************************************************)

\* a uintmax_t (64 bits) is <<l1, l2, l3, l4>>, four 16-bit limbs, lowest
\* first: its value is l1 + l2 * Base + l3 * Base^2 + l4 * Base^3
Base == 2^16

\* the uintmax_t whose value is n, for 0 <= n < 2^31
FromNat(n) == <<n % Base, n \div Base, 0, 0>>

Zero == FromNat(0)

\* the uintmax_t hi * 2^48 + n, for 0 <= hi < 2^16 and 0 <= n < 2^31
FromTop(hi, n) == <<n % Base, n \div Base, 0, hi>>

UintMax == <<Base - 1, Base - 1, Base - 1, Base - 1>>

\* a + b on uintmax_t
Add(a, b) ==
    LET s1 == a[1] + b[1]
        s2 == a[2] + b[2] + s1 \div Base
        s3 == a[3] + b[3] + s2 \div Base
        s4 == a[4] + b[4] + s3 \div Base
    IN  <<s1 % Base, s2 % Base, s3 % Base, s4 % Base>>

\* a - b on uintmax_t
Sub(a, b) ==
    LET s1 == a[1] - b[1]
        s2 == a[2] - b[2] - (IF s1 < 0 THEN 1 ELSE 0)
        s3 == a[3] - b[3] - (IF s2 < 0 THEN 1 ELSE 0)
        s4 == a[4] - b[4] - (IF s3 < 0 THEN 1 ELSE 0)
    IN  <<(s1 + Base) % Base, (s2 + Base) % Base,
          (s3 + Base) % Base, (s4 + Base) % Base>>

\* a * k on uintmax_t, for an int k with 0 <= k < 2^15
Mul(a, k) ==
    LET p1 == a[1] * k
        p2 == a[2] * k + p1 \div Base
        p3 == a[3] * k + p2 \div Base
        p4 == a[4] * k + p3 \div Base
    IN  <<p1 % Base, p2 % Base, p3 % Base, p4 % Base>>

\* a * k does not fit uintmax_t
MulOverflows(a, k) ==
    LET p1 == a[1] * k
        p2 == a[2] * k + p1 \div Base
        p3 == a[3] * k + p2 \div Base
        p4 == a[4] * k + p3 \div Base
    IN  p4 \div Base # 0

\* quotient and remainder of a / d on uintmax_t, for 0 < d < 2^15
DivMod(a, d) ==
    LET c4 == a[4]
        c3 == (c4 % d) * Base + a[3]
        c2 == (c3 % d) * Base + a[2]
        c1 == (c2 % d) * Base + a[1]
    IN  [q |-> <<c1 \div d, c2 \div d, c3 \div d, c4 \div d>>, r |-> c1 % d]

Div(a, d) == DivMod(a, d).q

(***************************************************************************)
(* fmt_human (util.c)                                                      *)
(***************************************************************************)

\* the digits of num in base `base`, lowest first, by repeated division: the
\* scaling loop divides once per digit above the lowest
RECURSIVE Digits(_, _)
Digits(num, base) ==
    IF num = Zero THEN <<>>
    ELSE LET dm == DivMod(num, base)
         IN  <<dm.r>> \o Digits(dm.q, base)

\* the digit string ds times k: the digits kept and the carry out of the top
RECURSIVE MulDigits(_, _, _, _, _)
MulDigits(ds, base, k, j, carry) ==
    IF j > Len(ds) THEN [ds |-> <<>>, carry |-> carry]
    ELSE LET v    == ds[j] * k + carry
             rest == MulDigits(ds, base, k, j + 1, v \div base)
         IN  [ds |-> <<v % base>> \o rest.ds, carry |-> rest.carry]

\* "%.1f" of whole + 0.ds (ds the fraction's digits in base `base`, lowest
\* first): the value in tenths, rounded to nearest, ties to even
Tenths(whole, ds, base) ==
    LET t     == MulDigits(ds, base, 10, 1, 0)
        down  == 10 * whole + t.carry
        twice == MulDigits(t.ds, base, 2, 1, 0)
        tie   == \A j \in 1..Len(twice.ds) : twice.ds[j] = 0
        up    == /\ twice.carry = 1
                 /\ (~tie \/ down % 2 = 1)
    IN  IF up THEN down + 1 ELSE down

\* fmt_human(num, base): num scaled by base until it is below base; the
\* numeral (in tenths) and the index of the unit suffix
fmt_human(num, base) ==
    LET ds == Digits(num, base)
        i  == IF ds = <<>> THEN 0 ELSE Len(ds) - 1
    IN  [tenths |-> Tenths(IF ds = <<>> THEN 0 ELSE ds[Len(ds)],
                           SubSeq(ds, 1, i), base),
         unit   |-> i]

(***************************************************************************)
(* Values the environment hands to the component                           *)
(***************************************************************************)

\* a pointer is NULL or <<pointee>>
NULL == <<>>

\* <limits.h>: the size of the path buffer
PATH_MAX == 4096

\* the builds of the file: #if defined(__linux__) / #elif OpenBSD | FreeBSD
Builds == {"linux", "bsd"}

\* an interface name argument: the string and its strlen
Eth0 == [name |-> "eth0", len |-> 4]

Wlan0 == [name |-> "wlan0", len |-> 5]

LongName == [name |-> "long", len |-> PATH_MAX]

Interfaces == {Eth0, Wlan0, LongName}

\* the names that fit IFNAMSIZ
ShortInterfaces == {Eth0, Wlan0}

\* cumulative byte counts the OS may report: 0, 500000, 1550000, 2^63
Counters ==
    {Zero, FromNat(500000), FromNat(1550000), FromTop(2^15, 0)}

\* what is found at /sys/class/net/<if>/statistics/<dir>_bytes at a tick
SysFiles ==
    {[kind |-> "nofile", value |-> Zero], [kind |-> "garbage", value |-> Zero]}
        \cup {[kind |-> "value", value |-> c] : c \in Counters}

\* what run_command hands back: NULL, or the first line of the pipeline
CmdOutputs == {NULL, <<Eth0>>, <<Wlan0>>}

\* bound: the longest interface list getifaddrs hands back
MaxIfaddrs == 2

\* if_data byte counts of a list entry
IfData == {FromNat(500000)}

\* struct ifaddrs entries: ifa_name, and ifa_data (NULL or the byte count
\* read): a link entry of eth0 with statistics, an address entry of eth0
\* without, a link entry of wlan0 that has counted no byte yet
IfaEntries ==
    {[ifa_name |-> "eth0", ifa_data |-> <<d>>] : d \in IfData}
        \cup {[ifa_name |-> "eth0", ifa_data |-> NULL]}
        \cup {[ifa_name |-> "wlan0", ifa_data |-> <<Zero>>]}

\* what getifaddrs does at a tick: -1, or 0 and the list
GetifaddrsResults ==
    {[rc |-> -1, ifal |-> <<>>]}
        \cup {[rc |-> 0, ifal |-> l] :
                l \in UNION {[1..n -> IfaEntries] : n \in 0..MaxIfaddrs}}

\* values of the configured interval (config.h), in milliseconds
Intervals == {1000, 3000}

(***************************************************************************)
(* util.c helpers the samplers call                                        *)
(***************************************************************************)

\* esnprintf(path, sizeof(path), "/sys/class/net/%s/statistics/?x_bytes", if):
\* the length written, or -1 when the result does not fit the buffer
esnprintf(interface) ==
    LET n == 15 + interface.len + 20
    IN  IF n >= PATH_MAX THEN -1 ELSE n

\* pscanf(path, "%ju", &var): the items assigned (-1 when the file cannot be
\* opened) and the value var holds afterwards
pscanf(file, var) ==
    CASE file.kind = "nofile"  -> [n |-> -1, var |-> var]
      [] file.kind = "garbage" -> [n |-> 0, var |-> var]
      [] file.kind = "value"   -> [n |-> 1, var |-> file.value]

\* run_command(cmd): the pipeline's first line, or NULL
run_command(cmdout) == cmdout

(***************************************************************************)
(* Linux build                                                             *)
(***************************************************************************)

\* mutant: a sentinel other than 0, the largest uintmax_t
Unset_allones(oldbytes) == oldbytes = UintMax

\* the sentinel test: if (oldrxbytes == 0)
Unset(oldbytes) == oldbytes = Zero

\* mutant: the delta divided by the interval without the scaling to seconds
Rate_unscaled(bytes, oldbytes, ival) == Div(Sub(bytes, oldbytes), ival)

\* mutant: the delta taken as a signed value and a negative one clamped to 0
Rate_clamped(bytes, oldbytes, ival) ==
    IF Sub(bytes, oldbytes)[4] >= 2^15
    THEN Zero
    ELSE Div(Mul(Sub(bytes, oldbytes), 1000), ival)

\* (rxbytes - oldrxbytes) * 1000 / interval, on uintmax_t
Rate(bytes, oldbytes, ival) == Div(Mul(Sub(bytes, oldbytes), 1000), ival)

\* mutant: decimal units asked of fmt_human
FmtCall_decimal(rate) == [num |-> rate, base |-> 1000]

\* the arguments of the fmt_human call of the return statement
FmtCall(rate) == [num |-> rate, base |-> 1024]

\* return fmt_human((rxbytes - oldrxbytes) * 1000 / interval, 1024);
Emit(bytes, oldbytes, ival) ==
    LET c == FmtCall(Rate(bytes, oldbytes, ival))
    IN  <<fmt_human(c.num, c.base)>>

\* mutant: the result of pscanf is not checked
netspeed_rx_linux_unchecked(rxbytes0, interface, file, ival) ==
    LET oldrxbytes == rxbytes0
        scanned    == pscanf(file, rxbytes0)
    IN  IF esnprintf(interface) < 0
        THEN [static |-> rxbytes0, ret |-> NULL, read |-> "path"]
        ELSE IF Unset(oldrxbytes)
        THEN [static |-> scanned.var, ret |-> NULL,
              read |-> IF scanned.n = 1 THEN "ok" ELSE file.kind]
        ELSE [static |-> scanned.var,
              ret    |-> Emit(scanned.var, oldrxbytes, ival),
              read   |-> IF scanned.n = 1 THEN "ok" ELSE file.kind]

\* netspeed_rx(interface) with the static rxbytes as it is at entry:
\* the static afterwards, the value returned, and how the counter read went
netspeed_rx_linux(rxbytes0, interface, file, ival) ==
    LET oldrxbytes == rxbytes0
        scanned    == pscanf(file, rxbytes0)
    IN  IF esnprintf(interface) < 0
        THEN [static |-> rxbytes0, ret |-> NULL, read |-> "path"]
        ELSE IF scanned.n # 1
        THEN [static |-> scanned.var, ret |-> NULL, read |-> file.kind]
        ELSE IF Unset(oldrxbytes)
        THEN [static |-> scanned.var, ret |-> NULL, read |-> "ok"]
        ELSE [static |-> scanned.var,
              ret    |-> Emit(scanned.var, oldrxbytes, ival),
              read   |-> "ok"]

\* netspeed_tx(interface) with the static txbytes as it is at entry
netspeed_tx_linux(txbytes0, interface, file, ival) ==
    LET oldtxbytes == txbytes0
        scanned    == pscanf(file, txbytes0)
    IN  IF esnprintf(interface) < 0
        THEN [static |-> txbytes0, ret |-> NULL, read |-> "path"]
        ELSE IF scanned.n # 1
        THEN [static |-> scanned.var, ret |-> NULL, read |-> file.kind]
        ELSE IF Unset(oldtxbytes)
        THEN [static |-> scanned.var, ret |-> NULL, read |-> "ok"]
        ELSE [static |-> scanned.var,
              ret    |-> Emit(scanned.var, oldtxbytes, ival),
              read   |-> "ok"]

netspeed_get_active_interface(cmdout) == run_command(cmdout)

\* mutant: the result of the discovery is not checked
netspeed_rx_auto_unchecked(rxbytes0, cmdout, file, ival) ==
    LET interface == netspeed_get_active_interface(cmdout)
    IN  netspeed_rx_linux(rxbytes0,
                          IF interface = NULL THEN Eth0 ELSE interface[1],
                          file, ival)

\* netspeed_rx_auto()
netspeed_rx_auto(rxbytes0, cmdout, file, ival) ==
    LET interface == netspeed_get_active_interface(cmdout)
    IN  IF interface = NULL
        THEN [static |-> rxbytes0, ret |-> NULL, read |-> "none"]
        ELSE netspeed_rx_linux(rxbytes0, interface[1], file, ival)

\* netspeed_tx_auto()
netspeed_tx_auto(txbytes0, cmdout, file, ival) ==
    LET interface == netspeed_get_active_interface(cmdout)
    IN  IF interface = NULL
        THEN [static |-> txbytes0, ret |-> NULL, read |-> "none"]
        ELSE netspeed_tx_linux(txbytes0, interface[1], file, ival)

(***************************************************************************)
(* BSD build                                                               *)
(***************************************************************************)

\* the for loop over the list from entry i on: the sum and if_ok
RECURSIVE Traverse(_, _, _, _, _)
Traverse(ifal, i, name, bytes, if_ok) ==
    IF i > Len(ifal) THEN [bytes |-> bytes, if_ok |-> if_ok]
    ELSE IF ifal[i].ifa_name = name /\ ifal[i].ifa_data # NULL
         THEN Traverse(ifal, i + 1, name, Add(bytes, ifal[i].ifa_data[1]), 1)
         ELSE Traverse(ifal, i + 1, name, bytes, if_ok)

\* mutant: the sentinel test made on the new sum instead of the old sample
netspeed_rx_bsd_newsum(rxbytes0, interface, gia, ival) ==
    LET oldrxbytes == rxbytes0
        t          == Traverse(gia.ifal, 1, interface.name, Zero, 0)
    IN  IF gia.rc = -1
        THEN [static |-> rxbytes0, ret |-> NULL, read |-> "getifaddrs"]
        ELSE IF t.if_ok = 0
        THEN [static |-> t.bytes, ret |-> NULL, read |-> "nomatch"]
        ELSE IF Unset(t.bytes)
        THEN [static |-> t.bytes, ret |-> NULL, read |-> "ok"]
        ELSE [static |-> t.bytes,
              ret    |-> Emit(t.bytes, oldrxbytes, ival),
              read   |-> "ok"]

\* netspeed_rx(interface) of the BSD build
netspeed_rx_bsd(rxbytes0, interface, gia, ival) ==
    LET oldrxbytes == rxbytes0
        t          == Traverse(gia.ifal, 1, interface.name, Zero, 0)
    IN  IF gia.rc = -1
        THEN [static |-> rxbytes0, ret |-> NULL, read |-> "getifaddrs"]
        ELSE IF t.if_ok = 0
        THEN [static |-> t.bytes, ret |-> NULL, read |-> "nomatch"]
        ELSE IF Unset(oldrxbytes)
        THEN [static |-> t.bytes, ret |-> NULL, read |-> "ok"]
        ELSE [static |-> t.bytes,
              ret    |-> Emit(t.bytes, oldrxbytes, ival),
              read   |-> "ok"]

\* mutant: the static is assigned only once a matching entry was found
netspeed_tx_bsd_kept(txbytes0, interface, gia, ival) ==
    LET oldtxbytes == txbytes0
        t          == Traverse(gia.ifal, 1, interface.name, Zero, 0)
    IN  IF gia.rc = -1
        THEN [static |-> txbytes0, ret |-> NULL, read |-> "getifaddrs"]
        ELSE IF t.if_ok = 0
        THEN [static |-> txbytes0, ret |-> NULL, read |-> "nomatch"]
        ELSE IF Unset(oldtxbytes)
        THEN [static |-> t.bytes, ret |-> NULL, read |-> "ok"]
        ELSE [static |-> t.bytes,
              ret    |-> Emit(t.bytes, oldtxbytes, ival),
              read   |-> "ok"]

\* netspeed_tx(interface) of the BSD build
netspeed_tx_bsd(txbytes0, interface, gia, ival) ==
    LET oldtxbytes == txbytes0
        t          == Traverse(gia.ifal, 1, interface.name, Zero, 0)
    IN  IF gia.rc = -1
        THEN [static |-> txbytes0, ret |-> NULL, read |-> "getifaddrs"]
        ELSE IF t.if_ok = 0
        THEN [static |-> t.bytes, ret |-> NULL, read |-> "nomatch"]
        ELSE IF Unset(oldtxbytes)
        THEN [static |-> t.bytes, ret |-> NULL, read |-> "ok"]
        ELSE [static |-> t.bytes,
              ret    |-> Emit(t.bytes, oldtxbytes, ival),
              read   |-> "ok"]

(***************************************************************************)
(* State                                                                   *)
(***************************************************************************)

VARIABLES
    target,    \* the build that runs: "linux", "bsd", or "both" side by side
    interval,  \* extern const unsigned int interval
    rxbytes,   \* static uintmax_t rxbytes of each build
    txbytes,   \* static uintmax_t txbytes of each build
    out,       \* per build: what the latest call returned and how its read went
    call,      \* the latest call: function, direction, inputs, state at entry
    hist,      \* per direction: the latest successful read, how the latest read
               \* went, whether a list without a match came after the former
    clean,     \* no counter read has failed so far
    fmtArgs, fmtOut, fmtUp

vars == <<target, interval, rxbytes, txbytes, out, call, hist, clean,
          fmtArgs, fmtOut, fmtUp>>

samplerVars == <<target, interval, rxbytes, txbytes, out, call, hist, clean>>

fmtVars == <<fmtArgs, fmtOut, fmtUp>>

Running == IF target = "both" THEN Builds ELSE {target}

NoCall ==
    [dir |-> "none", interface |-> NULL, outcome |-> "none",
     value |-> NULL,
     pre |-> [rxbytes |-> [b \in Builds |-> Zero],
              txbytes |-> [b \in Builds |-> Zero]],
     before |-> [good |-> NULL, goodIface |-> NULL, reads |-> "none",
                 lost |-> FALSE]]

InitSampler(t) ==
    /\ target = t
    /\ interval \in Intervals
    /\ rxbytes = [b \in Builds |-> Zero]
    /\ txbytes = [b \in Builds |-> Zero]
    /\ out = [b \in Builds |-> [ret |-> NULL, read |-> "none"]]
    /\ call = NoCall
    /\ hist = [d \in {"rx", "tx"} |->
                 [good |-> NULL, goodIface |-> NULL, reads |-> "none",
                  lost |-> FALSE]]
    /\ clean = TRUE

InitFmt ==
    /\ fmtArgs = NULL
    /\ fmtOut = NULL
    /\ fmtUp = NULL

Init ==
    /\ \E t \in Builds : InitSampler(t)
    /\ InitFmt

\* what a call's counter read came to: not attempted, failed, or succeeded
Outcome(read) ==
    CASE read = "none" -> "none"
      [] read = "ok"   -> "ok"
      [] OTHER         -> "fail"

\* the record of reads of a direction after a call
Observed(h, outcome, value, interface) ==
    CASE outcome = "none" -> h
      [] outcome = "ok"   ->
            [good |-> <<value>>, goodIface |-> <<interface.name>>,
             reads |-> "ok", lost |-> FALSE]
      [] outcome = "fail" -> [h EXCEPT !.reads = "fail"]

\* the record after a read of the given kind: a list without a match is noted
Noted(h, read) == [h EXCEPT !.lost = IF read = "nomatch" THEN TRUE ELSE @]

\* mutant: one static shared by the two directions
Written_shared(d, dir) == TRUE

\* the static of direction d is the one a call of direction dir assigns:
\* rxbytes is local to netspeed_rx, txbytes to netspeed_tx
Written(d, dir) == d = dir

\* a call of direction dir has returned res[b] on each running
\* build b; all builds saw the same outcome
Return(dir, interface, res) ==
    LET any     == res[CHOOSE b \in DOMAIN res : TRUE]
        outcome == Outcome(any.read)
        value   == any.static
    IN  /\ rxbytes' = [b \in Builds |->
                         IF Written("rx", dir) /\ b \in DOMAIN res
                         THEN res[b].static ELSE rxbytes[b]]
        /\ txbytes' = [b \in Builds |->
                         IF Written("tx", dir) /\ b \in DOMAIN res
                         THEN res[b].static ELSE txbytes[b]]
        /\ out' = [b \in Builds |->
                     IF b \in DOMAIN res
                     THEN [ret |-> res[b].ret, read |-> res[b].read]
                     ELSE [ret |-> NULL, read |-> "none"]]
        /\ call' = [dir |-> dir, interface |-> interface,
                    outcome |-> outcome,
                    value |-> IF outcome = "ok" THEN <<value>> ELSE NULL,
                    pre |-> [rxbytes |-> rxbytes, txbytes |-> txbytes],
                    before |-> hist[dir]]
        /\ hist' = [hist EXCEPT ![dir] =
                      Noted(Observed(@, outcome, value,
                                     IF interface = NULL THEN Eth0
                                     ELSE interface[1]),
                            any.read)]
        /\ clean' = (clean /\ outcome # "fail")
        /\ UNCHANGED <<target, interval, fmtVars>>

(***************************************************************************)
(* Calls                                                                   *)
(***************************************************************************)

NetspeedRx(interface, file) ==
    /\ target = "linux"
    /\ Return("rx", <<interface>>,
              [b \in {"linux"} |->
                 netspeed_rx_linux(rxbytes[b], interface, file, interval)])

NetspeedTx(interface, file) ==
    /\ target = "linux"
    /\ Return("tx", <<interface>>,
              [b \in {"linux"} |->
                 netspeed_tx_linux(txbytes[b], interface, file, interval)])

NetspeedRxAuto(cmdout, file) ==
    /\ target = "linux"
    /\ Return("rx", netspeed_get_active_interface(cmdout),
              [b \in {"linux"} |->
                 netspeed_rx_auto(rxbytes[b], cmdout, file, interval)])

NetspeedTxAuto(cmdout, file) ==
    /\ target = "linux"
    /\ Return("tx", netspeed_get_active_interface(cmdout),
              [b \in {"linux"} |->
                 netspeed_tx_auto(txbytes[b], cmdout, file, interval)])

NetspeedRxBsd(interface, gia) ==
    /\ target = "bsd"
    /\ Return("rx", <<interface>>,
              [b \in {"bsd"} |->
                 netspeed_rx_bsd(rxbytes[b], interface, gia, interval)])

NetspeedTxBsd(interface, gia) ==
    /\ target = "bsd"
    /\ Return("tx", <<interface>>,
              [b \in {"bsd"} |->
                 netspeed_tx_bsd(txbytes[b], interface, gia, interval)])

Next ==
    \/ \E i \in Interfaces, f \in SysFiles : NetspeedRx(i, f)
    \/ \E i \in Interfaces, f \in SysFiles : NetspeedTx(i, f)
    \/ \E c \in CmdOutputs, f \in SysFiles : NetspeedRxAuto(c, f)
    \/ \E c \in CmdOutputs, f \in SysFiles : NetspeedTxAuto(c, f)
    \/ \E i \in ShortInterfaces, g \in GetifaddrsResults : NetspeedRxBsd(i, g)
    \/ \E i \in ShortInterfaces, g \in GetifaddrsResults : NetspeedTxBsd(i, g)

Spec == Init /\ [][Next]_vars

(***************************************************************************)
(* Both builds side by side, fed the same outcome at every tick            *)
(***************************************************************************)

\* the sysfs contents that give the Linux read the outcome the list gives
FilesLike(interface, gia) ==
    LET t == Traverse(gia.ifal, 1, interface.name, Zero, 0)
    IN  IF gia.rc = -1 \/ t.if_ok = 0
        THEN {f \in SysFiles : f.kind # "value"}
        ELSE {[kind |-> "value", value |-> t.bytes]}

BothRx(interface, gia, file) ==
    /\ target = "both"
    /\ Return("rx", <<interface>>,
              [b \in Builds |->
                 IF b = "linux"
                 THEN netspeed_rx_linux(rxbytes[b], interface, file, interval)
                 ELSE netspeed_rx_bsd(rxbytes[b], interface, gia, interval)])

BothTx(interface, gia, file) ==
    /\ target = "both"
    /\ Return("tx", <<interface>>,
              [b \in Builds |->
                 IF b = "linux"
                 THEN netspeed_tx_linux(txbytes[b], interface, file, interval)
                 ELSE netspeed_tx_bsd(txbytes[b], interface, gia, interval)])

InitBoth ==
    /\ InitSampler("both")
    /\ InitFmt

NextBoth ==
    \/ \E i \in Interfaces, g \in GetifaddrsResults :
          \E f \in FilesLike(i, g) : BothRx(i, g, f)
    \/ \E i \in Interfaces, g \in GetifaddrsResults :
          \E f \in FilesLike(i, g) : BothTx(i, g, f)

SpecBoth == InitBoth /\ [][NextBoth]_vars

(***************************************************************************)
(* fmt_human applied to a rate x and to 1024 * x                           *)
(***************************************************************************)

RECURSIVE Scaled(_, _)
Scaled(x, k) == IF k = 0 THEN x ELSE Scaled(Mul(x, 1024), k - 1)

\* rates formatted: m * 1024^k for these m, and the largest uintmax_t
FmtMantissas ==
    {0, 1, 5, 9, 10, 99, 100, 512, 999, 1000, 1023, 1024, 1025, 1075, 1076,
     1280, 1382, 1383, 1536, 4095, 10239, 10240, 1048575, 1050000, 16777215}

FmtRates ==
    {Scaled(FromNat(m), k) : m \in FmtMantissas, k \in 0..4} \cup {UintMax}

FmtApply(x) ==
    LET c == FmtCall(x)
    IN  /\ fmtArgs' = <<c>>
        /\ fmtOut' = <<fmt_human(c.num, c.base)>>
        /\ fmtUp' = IF ~MulOverflows(c.num, 1024)
                    THEN <<fmt_human(Mul(c.num, 1024), c.base)>>
                    ELSE NULL
        /\ UNCHANGED samplerVars

NextFmt == \E x \in FmtRates : FmtApply(x)

SpecFmt == Init /\ [][NextFmt]_vars

(***************************************************************************)
(* Claims                                                                  *)
(***************************************************************************)

\* the static of direction d on build b, now and at entry of the latest call
StaticOf(d, b) == IF d = "rx" THEN rxbytes[b] ELSE txbytes[b]

PreOf(d, b) == IF d = "rx" THEN call.pre.rxbytes[b] ELSE call.pre.txbytes[b]

Called == call.dir # "none"

\* the rate the claims state for a current and a previous counter value:
\* (current - previous) * 1000 / interval, evaluated on uintmax_t
ClaimedRate(current, previous) ==
    Div(Mul(Sub(current, previous), 1000), interval)

\* that rate as the sampler formats it
Formatted(rate) == <<fmt_human(rate, 1024)>>

\* C1 (as stated): in a run of successful reads from the unset state, the
\* first call of a direction returns no value and every later call returns the
\* formatted rate (ci - c(i-1)) * 1000 / interval.
C1_Original ==
    \A b \in Running :
        (Called /\ clean /\ call.outcome = "ok") =>
            IF call.before.reads = "none"
            THEN out[b].ret = NULL
            ELSE out[b].ret =
                    Formatted(ClaimedRate(call.value[1], call.before.good[1]))

\* C1 (amended): in a run of successful reads from the unset state, the first
\* call of a direction returns no value; a later call returns no value when
\* the previous read returned 0, and otherwise the formatted rate
\* (ci - c(i-1)) * 1000 / interval.
C1_RateOfSuccessiveReads ==
    \A b \in Running :
        (Called /\ clean /\ call.outcome = "ok") =>
            IF call.before.reads = "none" \/ call.before.good = <<Zero>>
            THEN out[b].ret = NULL
            ELSE out[b].ret =
                    Formatted(ClaimedRate(call.value[1], call.before.good[1]))

\* C1 witness: interval 1000, reads 500000 then 1550000: the second call
\* returns 1050000 bytes per second, formatted 1.0 at unit level 2.
C1_Witness ==
    /\ target = "linux"
    /\ interval = 1000
    /\ clean
    /\ call.outcome = "ok"
    /\ call.before.good = <<FromNat(500000)>>
    /\ call.value = <<FromNat(1550000)>>
    /\ out["linux"].ret = <<[tenths |-> 10, unit |-> 2]>>

\* C2 (as stated): a call whose counter read fails returns no value and
\* leaves the previous sample of its direction as it was at entry.
C2_FailedReadKeepsSample ==
    \A b \in Running :
        (Called /\ call.outcome = "fail") =>
            /\ out[b].ret = NULL
            /\ StaticOf(call.dir, b) = PreOf(call.dir, b)

\* the sampler state of a direction: HaveSample is a non-zero previous sample
HaveSample(bytes) == bytes # Zero

\* C3 (as stated, for reads of a non-zero counter): a successful read leaves
\* the sampler in HaveSample, and a sampler in HaveSample at entry of a call
\* is in HaveSample after it, whether the read succeeds or fails.
C3_TwoStateMachine ==
    \A b \in Running :
        (Called /\ call.value # <<Zero>>) =>
            /\ call.outcome = "ok" => HaveSample(StaticOf(call.dir, b))
            /\ HaveSample(PreOf(call.dir, b)) =>
                   HaveSample(StaticOf(call.dir, b))

\* C4 (as stated): a rate is emitted only by the second of two consecutive
\* successful reads: the first successful read after start and the first one
\* after a failed read return no value.
C4_Original ==
    \A b \in Running :
        (Called /\ out[b].ret # NULL) =>
            /\ call.outcome = "ok"
            /\ call.before.reads = "ok"

\* C4 (amended): a rate is emitted only by a successful read made while the
\* previous sample is non-zero, so only after an earlier successful read; the
\* first successful read after start returns no value; the first successful
\* read after a failed read returns a rate exactly when the previous sample
\* is still non-zero.
C4_RateNeedsEarlierSample ==
    \A b \in Running :
        Called =>
            /\ out[b].ret # NULL =>
                   /\ call.outcome = "ok"
                   /\ call.before.good # NULL
                   /\ PreOf(call.dir, b) # Zero
            /\ (call.outcome = "ok" /\ call.before.reads = "none") =>
                   out[b].ret = NULL
            /\ (call.outcome = "ok" /\ call.before.reads = "fail") =>
                   (out[b].ret # NULL <=> PreOf(call.dir, b) # Zero)

\* C4 witness: a successful read right after a failed read emits a rate.
C4_Witness ==
    /\ target = "linux"
    /\ call.outcome = "ok"
    /\ call.before.reads = "fail"
    /\ call.before.good # NULL
    /\ out["linux"].ret # NULL

\* C5 (as stated, a stored 0 counted as no previous sample): a call returns no
\* value when interface discovery failed, when the counter read failed, and
\* when no read of the direction has succeeded yet or the latest successful
\* one read 0; it returns no value only in these cases, and the formatted
\* rate over the latest successfully read value in every other.
C5_NoValueExactlyOnError ==
    \A b \in Running :
        Called =>
            IF \/ call.interface = NULL
               \/ call.outcome = "fail"
               \/ call.before.good = NULL
               \/ call.before.good = <<Zero>>
            THEN out[b].ret = NULL
            ELSE out[b].ret =
                     Formatted(ClaimedRate(call.value[1],
                                           call.before.good[1]))

\* C6: when interface discovery fails, netspeed_rx_auto and netspeed_tx_auto
\* return no value, attempt no counter read, and leave the previous samples of
\* both directions as they were.
C6_DiscoveryFailure ==
    (target = "linux" /\ Called /\ call.interface = NULL) =>
        /\ out["linux"].ret = NULL
        /\ out["linux"].read = "none"
        /\ rxbytes = call.pre.rxbytes
        /\ txbytes = call.pre.txbytes
        /\ hist[call.dir] = call.before

\* C6 witness: discovery fails in netspeed_rx_auto while both directions hold
\* a sample.
C6_Witness ==
    /\ target = "linux"
    /\ call.dir = "rx"
    /\ call.interface = NULL
    /\ rxbytes["linux"] # Zero
    /\ txbytes["linux"] # Zero

\* C7 (as stated): a rate emitted for an interface is computed from two
\* samples of that interface, and a read of one interface does not change the
\* previous sample remembered from another.
C7_PerInterfaceState ==
    \A b \in Running :
        (Called /\ call.outcome = "ok" /\ call.before.good # NULL) =>
            /\ out[b].ret # NULL =>
                   call.before.goodIface = <<call.interface[1].name>>
            /\ call.before.goodIface # <<call.interface[1].name>> =>
                   StaticOf(call.dir, b) = PreOf(call.dir, b)

\* C8 witness of the case: both builds have emitted the same rate after two
\* successful reads.
C8_Agreeing ==
    /\ target = "both"
    /\ out["linux"].ret # NULL
    /\ out["linux"].ret = out["bsd"].ret

\* C8 (as stated): fed the same outcome at every tick, the two builds return
\* the same value and hold the same previous samples after every tick.
C8_BuildsAgree ==
    target = "both" =>
        /\ out["linux"].ret = out["bsd"].ret
        /\ rxbytes["linux"] = rxbytes["bsd"]
        /\ txbytes["linux"] = txbytes["bsd"]

\* C9 (as stated): the samplers call fmt_human with base 1024, and for every
\* rate x whose 1024-fold fits uintmax_t, fmt_human(1024 * x) shows the
\* numeral of fmt_human(x) with the unit one level higher.
C9_Original ==
    fmtArgs # NULL =>
        /\ fmtArgs[1].base = 1024
        /\ fmtUp # NULL =>
               /\ fmtUp[1].tenths = fmtOut[1].tenths
               /\ fmtUp[1].unit = fmtOut[1].unit + 1

\* C9 (amended): the samplers call fmt_human with base 1024, and for every
\* rate x > 0 whose 1024-fold fits uintmax_t, fmt_human(1024 * x) shows the
\* numeral of fmt_human(x) with the unit one level higher; for x = 0 both
\* show 0.0 at the lowest unit.
C9_UnitScaling ==
    fmtArgs # NULL =>
        /\ fmtArgs[1].base = 1024
        /\ fmtUp # NULL =>
               /\ fmtUp[1].tenths = fmtOut[1].tenths
               /\ fmtUp[1].unit =
                      IF fmtArgs[1].num = Zero THEN 0 ELSE fmtOut[1].unit + 1
        /\ fmtArgs[1].num = Zero =>
               fmtOut = <<[tenths |-> 0, unit |-> 0]>>

\* C9 witness: 1280 formats as 1.2 at level 1, 1280 * 1024 as 1.2 at level 2.
C9_Witness ==
    /\ fmtArgs = <<[num |-> FromNat(1280), base |-> 1024]>>
    /\ fmtOut = <<[tenths |-> 12, unit |-> 1]>>
    /\ fmtUp = <<[tenths |-> 12, unit |-> 2]>>

\* C10 (as stated, for a non-zero last good value): the first successful read
\* after failed reads emits the rate
\* (current - last good value) * 1000 / interval, with no correction for the
\* skipped ticks.
C10_RateAfterFailures ==
    \A b \in Running :
        (/\ Called
         /\ call.outcome = "ok"
         /\ call.before.reads = "fail"
         /\ call.before.good # NULL
         /\ call.before.good # <<Zero>>) =>
            out[b].ret =
                Formatted(ClaimedRate(call.value[1], call.before.good[1]))

\* a < b as unsigned values, compared from the top limb down
Below(a, b) ==
    \/ a[4] < b[4]
    \/ a[4] = b[4] /\ a[3] < b[3]
    \/ a[4] = b[4] /\ a[3] = b[3] /\ a[2] < b[2]
    \/ a[4] = b[4] /\ a[3] = b[3] /\ a[2] = b[2] /\ a[1] < b[1]

\* a value small enough for its 1000-fold to be an integer of the checker
SmallDelta(a) == a[4] = 0 /\ a[3] = 0 /\ a[2] * Base + a[1] <= 2000000

\* the truncated quotient d * 1000 / interval on the integers
ExactRate(d) == FromNat(((d[2] * Base + d[1]) * 1000) \div interval)

\* 2^w - (previous - current): what current - previous wraps to
Wrapped(current, previous) ==
    Add(Sub(UintMax, Sub(previous, current)), FromNat(1))

\* C11: a successful read of a counter below the non-zero previous sample
\* returns a value, the rate ((current - previous) mod 2^w * 1000 mod 2^w) /
\* interval, and stores the lower counter; a successful read with
\* current >= previous and (current - previous) * 1000 < 2^w returns exactly
\* the truncated quotient (current - previous) * 1000 / interval.
C11_WrappingRate ==
    \A b \in Running :
        (Called /\ call.outcome = "ok" /\ PreOf(call.dir, b) # Zero) =>
            LET current  == call.value[1]
                previous == PreOf(call.dir, b)
            IN  /\ Below(current, previous) =>
                       /\ out[b].ret # NULL
                       /\ out[b].ret =
                              Formatted(Div(Mul(Wrapped(current, previous),
                                                1000), interval))
                       /\ StaticOf(call.dir, b) = current
                /\ (/\ ~Below(current, previous)
                    /\ ~MulOverflows(Sub(current, previous), 1000)) =>
                       /\ SmallDelta(Sub(current, previous))
                       /\ out[b].ret =
                              Formatted(ExactRate(Sub(current, previous)))

\* C11 witness: interval 1000, previous sample 1550000, 500000 read: a rate
\* of (2^64 - 1050000) * 1000 mod 2^64 / 1000 is returned, 500000 is stored.
C11_Witness ==
    /\ target = "linux"
    /\ interval = 1000
    /\ call.outcome = "ok"
    /\ call.dir = "rx"
    /\ call.pre.rxbytes["linux"] = FromNat(1550000)
    /\ call.value = <<FromNat(500000)>>
    /\ out["linux"].ret # NULL
    /\ out["linux"].ret # Formatted(Zero)
    /\ rxbytes["linux"] = FromNat(500000)

\* C11 witness of the converse: on the list variant 500000 is read after
\* 500000: the rate is 0.
C11_WitnessExact ==
    /\ target = "bsd"
    /\ call.outcome = "ok"
    /\ PreOf(call.dir, "bsd") = FromNat(500000)
    /\ call.value = <<FromNat(500000)>>
    /\ out["bsd"].ret = Formatted(Zero)

\* the value the latest successful read of direction d returned, 0 before any
LastGood(d) == IF hist[d].good = NULL THEN Zero ELSE hist[d].good[1]

\* C12 (as stated): after any sequence of calls the previous sample of a
\* direction is the counter value of the most recent successful read of that
\* direction, or 0 when no read has succeeded yet; a successful read made
\* with the previous sample unset returns no value and still stores its value.
C12_SampleIsLastGoodRead ==
    \A b \in Running :
        /\ \A d \in {"rx", "tx"} : StaticOf(d, b) = LastGood(d)
        /\ (Called /\ call.outcome = "ok" /\ PreOf(call.dir, b) = Zero) =>
               /\ out[b].ret = NULL
               /\ StaticOf(call.dir, b) = call.value[1]

\* the direction a call of direction d does not sample
Other(d) == IF d = "rx" THEN "tx" ELSE "rx"

\* C13: a call of one direction, successful or not, leaves the previous
\* sample of the other direction unchanged, and what it returns is determined
\* by its own inputs and its own previous sample: no value when discovery or
\* the read failed or that sample is unset, else the rate over that sample.
C13_DirectionsIndependent ==
    \A b \in Running :
        Called =>
            /\ StaticOf(Other(call.dir), b) = PreOf(Other(call.dir), b)
            /\ out[b].ret =
                   IF \/ call.outcome # "ok"
                      \/ PreOf(call.dir, b) = Zero
                   THEN NULL
                   ELSE Formatted(ClaimedRate(call.value[1],
                                              PreOf(call.dir, b)))

\* C13 witness: netspeed_rx stores a new sample and emits a rate while the
\* transmit direction holds a different sample, which stays.
C13_Witness ==
    /\ target = "linux"
    /\ call.dir = "rx"
    /\ call.outcome = "ok"
    /\ out["linux"].ret # NULL
    /\ rxbytes["linux"] # call.pre.rxbytes["linux"]
    /\ txbytes["linux"] # Zero
    /\ txbytes["linux"] # rxbytes["linux"]
    /\ txbytes["linux"] # call.pre.rxbytes["linux"]

\* C14: a successful read of 0 leaves the previous sample as it is before
\* any read; the next successful read of the direction returns no value,
\* whatever it reads; and a call emits a rate if and only if its read
\* succeeded and the previous sample it found is non-zero.
C14_ZeroIsUnset ==
    \A b \in Running :
        Called =>
            /\ (call.outcome = "ok" /\ call.value = <<Zero>>) =>
                   StaticOf(call.dir, b) = NoCall.pre.rxbytes[b]
            /\ (call.outcome = "ok" /\ call.before.good = <<Zero>>) =>
                   out[b].ret = NULL
            /\ out[b].ret # NULL <=>
                   (call.outcome = "ok" /\ PreOf(call.dir, b) # Zero)

\* C14 witness: 0 was read, then 500000 is read and no value is returned.
C14_Witness ==
    /\ target = "linux"
    /\ call.outcome = "ok"
    /\ call.before.reads = "ok"
    /\ call.before.good = <<Zero>>
    /\ call.value = <<FromNat(500000)>>
    /\ out["linux"].ret = NULL

\* C14 witness on the list variant: wlan0 reported 0, then eth0 is read.
C14_WitnessList ==
    /\ target = "bsd"
    /\ call.outcome = "ok"
    /\ call.before.reads = "ok"
    /\ call.before.good = <<Zero>>
    /\ call.value = <<FromNat(500000)>>
    /\ out["bsd"].ret = NULL

\* C15 (as stated): the second of two consecutive successful reads of a
\* direction emits a rate when the first read a non-zero value, so a rate is
\* emitted again within two successful ticks after failed reads; on the
\* variant that keeps the last good value over a failed read (the file
\* variant) the first successful read after the failed reads emits it.
C15_Original ==
    \A b \in Running :
        (Called /\ call.outcome = "ok") =>
            /\ (call.before.reads = "ok" /\ call.before.good # <<Zero>>) =>
                   out[b].ret # NULL
            /\ (/\ b = "linux"
                /\ call.before.reads = "fail"
                /\ call.before.good # NULL) =>
                   out[b].ret # NULL

\* C15 (amended): the second of two consecutive successful reads of a
\* direction emits a rate when the first read a non-zero value, so a rate is
\* emitted again within two successful ticks after failed reads; on the file
\* variant the first successful read after the failed reads emits it when
\* the last good value is non-zero, and returns no value when it is 0.
C15_RecoveryAfterFailures ==
    \A b \in Running :
        (Called /\ call.outcome = "ok") =>
            /\ (call.before.reads = "ok" /\ call.before.good # <<Zero>>) =>
                   out[b].ret # NULL
            /\ (/\ b = "linux"
                /\ call.before.reads = "fail"
                /\ call.before.good # NULL) =>
                   (out[b].ret # NULL <=> call.before.good # <<Zero>>)

\* C15 witness: on the list variant a receive read has failed and the
\* transmit direction was never read; the latest receive call is the second
\* of two consecutive successful reads and emits a rate.
C15_Witness ==
    /\ target = "bsd"
    /\ ~clean
    /\ hist["tx"].reads = "none"
    /\ call.dir = "rx"
    /\ call.outcome = "ok"
    /\ call.before.reads = "ok"
    /\ call.before.good # <<Zero>>
    /\ out["bsd"].ret # NULL

\* C16: on the list variant a call whose getifaddrs fails returns no value
\* and keeps the previous sample; a call whose list holds no entry with
\* statistics for the interface returns no value and leaves the previous
\* sample 0; the next successful read after such a list returns no value,
\* while after failures of getifaddrs alone it returns a rate over the
\* non-zero sample kept.
C16_ListFailureKinds ==
    (target = "bsd" /\ Called) =>
        /\ out["bsd"].read = "getifaddrs" =>
               /\ out["bsd"].ret = NULL
               /\ StaticOf(call.dir, "bsd") = PreOf(call.dir, "bsd")
        /\ out["bsd"].read = "nomatch" =>
               /\ out["bsd"].ret = NULL
               /\ StaticOf(call.dir, "bsd") = Zero
        /\ (call.outcome = "ok" /\ call.before.lost) =>
               out["bsd"].ret = NULL
        /\ (/\ call.outcome = "ok"
            /\ call.before.reads = "fail"
            /\ ~call.before.lost
            /\ call.before.good # NULL
            /\ call.before.good # <<Zero>>) =>
               out["bsd"].ret =
                   Formatted(ClaimedRate(call.value[1], call.before.good[1]))

\* C16 witness: 500000 was read for the transmit direction, then a list
\* without a match came; the next successful read returns no value.
C16_Witness ==
    /\ target = "bsd"
    /\ call.dir = "tx"
    /\ call.outcome = "ok"
    /\ call.before.lost
    /\ call.before.good = <<FromNat(500000)>>
    /\ call.value = <<FromNat(500000)>>
    /\ out["bsd"].ret = NULL

\* C16 witness of the other kind: getifaddrs failed after 500000 was read;
\* the next successful read returns a rate.
C16_WitnessKept ==
    /\ target = "bsd"
    /\ call.outcome = "ok"
    /\ call.before.reads = "fail"
    /\ ~call.before.lost
    /\ call.before.good = <<FromNat(500000)>>
    /\ out["bsd"].ret # NULL

====
